---- MODULE Spec2Model ----
(***************************************************************************)
(* Model of smartmic-cloudimaging: the S3 DICOM organizer                  *)
(* (src/DicomOrganizer.py), the HealthImaging client (src/HealthImaging.py)*)
(* and the workflow driver (src/main.py).                                  *)
(*                                                                         *)
(* Python strings are sequences of one-character strings, object bodies    *)
(* are sequences of byte values, a pydicom dataset is a function from the  *)
(* keywords it holds to their values.                                      *)
(***************************************************************************)
EXTENDS Integers, Sequences, FiniteSets, TLC

VARIABLES
    scenario,        \* which entry point this run exercises
    mpc,             \* position of main(), "none" outside it
    \* ---- S3DICOMOrganizer ----
    opc,             \* position of the organizer's caller / running method
    target_bucket,   \* self.target_bucket
    target_prefix,   \* self.target_prefix
    s3,              \* the object store: set of [bucket, key, blob]
    listing,         \* keys the listing being paginated reports, in order
    pageNo,          \* pages of that listing consumed so far
    page,            \* objects of the current page not yet visited
    dicom_files,     \* the list _list_dicom_files builds / returned
    fileIdx,         \* organize loop: files of dicom_files already visited
    calls,           \* log of external S3 calls: [op, key, ok]
    structure,       \* get_organized_structure: the dict being built
    slisted,         \* get_organized_structure: keys visited so far
    \* ---- AWSHealthImaging.wait_for_import_completion ----
    wpc,             \* position in the polling loop
    max_wait,        \* argument max_wait
    check_interval,  \* argument check_interval
    now,             \* time.time() - start_time
    observed,        \* job statuses observed so far (NoProps: request failed)
    sleeps,          \* number of time.sleep calls made
    wret,            \* return value of wait_for_import_completion
    \* ---- main(): datastore setup and import ----
    self_datastore_id,  \* healthimaging.datastore_id, the client's attribute
    datastore_id,       \* main's local variable datastore_id
    import_datastore,   \* datastoreId passed to start_dicom_import_job
    \* ---- history ----
    s3_before        \* the object store when organize_by_patient_study_series began

vars == <<scenario, mpc, opc, target_bucket, target_prefix, s3, listing, pageNo,
          page, dicom_files, fileIdx, calls, structure, slisted,
          wpc, max_wait, check_interval, now, observed, sleeps, wret,
          self_datastore_id, datastore_id, import_datastore, s3_before>>

orgVars == <<opc, target_bucket, target_prefix, s3, listing, pageNo,
             page, dicom_files, fileIdx, calls, structure, slisted>>

waitVars == <<wpc, max_wait, check_interval, now, observed, sleeps, wret>>

setupVars == <<self_datastore_id, datastore_id, import_datastore>>

(***************************************************************************)
(* Bounds of the model.                                                    *)
(***************************************************************************)
MaxFiles == 3        \* objects under the source prefix
PageSize == 2        \* objects per listing page
MaxRelist == 1       \* keys a target listing may report a second time
MaxWait == 4         \* largest max_wait tried
MaxInterval == 2     \* largest check_interval tried
MaxDelay == 1        \* longest time one status request or oversleep takes

(***************************************************************************)
(* String helpers (Python str semantics on character sequences).           *)
(***************************************************************************)
EndsWith(s, suf) ==
    /\ Len(s) >= Len(suf)
    /\ SubSeq(s, Len(s) - Len(suf) + 1, Len(s)) = suf

\* str.replace(ch, rep) for a one-character ch: every occurrence is replaced
Replace(text, ch, rep) ==
    [i \in 1..Len(text) |-> IF text[i] = ch THEN rep ELSE text[i]]

\* str.split('/')
RECURSIVE Split(_)
Split(s) ==
    IF \A i \in 1..Len(s) : s[i] # "/"
    THEN <<s>>
    ELSE LET i == CHOOSE j \in 1..Len(s) :
                     s[j] = "/" /\ \A k \in 1..(j - 1) : s[k] # "/"
         IN  <<SubSeq(s, 1, i - 1)>> \o Split(SubSeq(s, i + 1, Len(s)))

\* parts[-n]
FromEnd(parts, n) == parts[Len(parts) - n + 1]

Range(f) == {f[i] : i \in DOMAIN f}

(***************************************************************************)
(* S3DICOMOrganizer: pure helpers.                                         *)
(***************************************************************************)
\* mutant: only the lower-case extensions
DicomExtensions_LowerCase ==
    { <<".", "d", "c", "m">>, <<".", "d", "i", "c", "o", "m">> }

\* the tuple passed to key.endswith
DicomExtensions ==
    { <<".", "d", "c", "m">>, <<".", "d", "i", "c", "o", "m">>,
      <<".", "D", "C", "M">>, <<".", "D", "I", "C", "O", "M">> }

HasDicomExtension(key) == \E e \in DicomExtensions : EndsWith(key, e)

\* Range='bytes=128-131'
RangeFirst == 128
RangeLast == 131

\* b'DICM'
DICM == <<68, 73, 67, 77>>

\* What a ranged GET returns: the bytes first..last that exist; a range that
\* starts at or after the end of the object is refused (the call raises).
RangeOk(body, first) == first < Len(body)
RangeRead(body, first, last) ==
    SubSeq(body, first + 1, IF last + 1 < Len(body) THEN last + 1 ELSE Len(body))

\* _is_dicom_file: False when the call raises, else header == b'DICM'
is_dicom_file(body, callFails) ==
    IF callFails \/ ~RangeOk(body, RangeFirst)
    THEN FALSE
    ELSE RangeRead(body, RangeFirst, RangeLast) = DICM

\* the condition of the if in _list_dicom_files
IsListedAsDicom(key, body, callFails) ==
    HasDicomExtension(key) \/ is_dicom_file(body, callFails)

\* mutant: the backslash left out
invalid_chars_NoBackslash == <<"<", ">", ":", "\"", "|", "?", "*">>

invalid_chars == <<"<", ">", ":", "\"", "|", "?", "*", "\\">>

RECURSIVE sanitizeFrom(_, _)
sanitizeFrom(text, i) ==
    IF i > Len(invalid_chars)
    THEN text
    ELSE sanitizeFrom(Replace(text, invalid_chars[i], "_"), i + 1)

\* _sanitize: for char in invalid_chars: text = text.replace(char, '_')
sanitize(text) == sanitizeFrom(text, 1)

Unknown_Patient == <<"U","n","k","n","o","w","n","_","P","a","t","i","e","n","t">>
Unknown_Study == <<"U","n","k","n","o","w","n","_","S","t","u","d","y">>
Unknown_Series == <<"U","n","k","n","o","w","n","_","S","e","r","i","e","s">>
Unknown_Instance == <<"U","n","k","n","o","w","n","_","I","n","s","t","a","n","c","e">>

\* ds.get(keyword, default)
DsGet(ds, keyword, default) ==
    IF keyword \in DOMAIN ds THEN ds[keyword] ELSE default

\* new_key of organize_by_patient_study_series
NewKey(prefix, ds) ==
    LET patient_id == sanitize(DsGet(ds, "PatientID", Unknown_Patient))
        study_uid == sanitize(DsGet(ds, "StudyInstanceUID", Unknown_Study))
        series_uid == sanitize(DsGet(ds, "SeriesInstanceUID", Unknown_Series))
        sop_instance_uid == sanitize(DsGet(ds, "SOPInstanceUID", Unknown_Instance))
    IN  prefix \o <<"/">> \o patient_id \o <<"/">> \o study_uid \o <<"/">>
            \o series_uid \o <<"/">> \o sop_instance_uid \o <<".", "d", "c", "m">>

(***************************************************************************)
(* The object store seen by the organizer.  An object body is a blob; its  *)
(* bytes decide the magic-number test, its dataset is what pydicom parses  *)
(* out of it (NoDataset: dcmread raises).                                  *)
(***************************************************************************)
Preamble == [i \in 1..128 |-> 0]

NoDataset == [parsed |-> FALSE]
Dataset(ds) == [parsed |-> TRUE, ds |-> ds]

Ids(p, st, se, sop) ==
    [PatientID |-> p, StudyInstanceUID |-> st, SeriesInstanceUID |-> se,
     SOPInstanceUID |-> sop]

\* the example of _sanitize's docstring: "Patient: John/Doe"
DocstringExample ==
    <<"P","a","t","i","e","n","t",":"," ","J","o","h","n","/","D","o","e">>

Blobs == {"B1", "B2", "B3", "B4", "B5", "B6", "B7", "B8", "B9"}

BlobBytes(b) ==
    CASE b = "B1" -> Preamble \o DICM
      [] b = "B2" -> SubSeq(Preamble, 1, 100)
      [] b = "B3" -> Preamble \o DICM \o <<0, 0>>
      [] b = "B4" -> Preamble \o <<1, 2, 3, 4>>
      [] b = "B5" -> Preamble \o <<68, 73>>
      [] b = "B6" -> Preamble \o DICM
      [] b = "B7" -> DICM \o Preamble
      [] b = "B8" -> Preamble \o DICM
      [] b = "B9" -> Preamble \o DICM \o <<9>>

BlobDataset(b) ==
    CASE b = "B1" -> Dataset(Ids(<<"P","1">>, <<"S","1">>, <<"R","1">>, <<"I","1">>))
      [] b = "B2" -> Dataset(Ids(<<":","\"">>, <<"<",">">>, <<"|","?">>,
                                 <<"*","\\","1">>))
      [] b = "B3" -> Dataset([SeriesInstanceUID |-> <<"R","2">>,
                              SOPInstanceUID |-> <<"x","/","y">>])
      [] b = "B4" -> NoDataset
      [] b = "B5" -> NoDataset
      [] b = "B6" -> Dataset([PatientID |-> <<"P","1">>,
                              StudyInstanceUID |-> <<"S","1">>,
                              SeriesInstanceUID |-> <<"R","1">>])
      [] b = "B7" -> Dataset([PatientID |-> DocstringExample,
                              StudyInstanceUID |-> <<"S","1">>,
                              SOPInstanceUID |-> <<"I","1">>])
      [] b = "B8" -> NoDataset
      [] b = "B9" -> Dataset(Ids(<<"P","1">>, <<"S","1">>, <<"R","1">>, <<"I","1">>))

\* Objects that may lie under the source prefix, in the key order S3 lists them
SourceCandidates ==
    << [key |-> <<"/", "P", "1", "/", "S", "1", "/", "R", "1", "/",
                  "I", "1", ".", "d", "c", "m">>, blob |-> "B9"],
       [key |-> <<"a", ".", "d", "c", "m">>, blob |-> "B1"],
       [key |-> <<"b", ".", "D", "I", "C", "O", "M">>, blob |-> "B2"],
       [key |-> <<"c">>, blob |-> "B3"],
       [key |-> <<"d", ".", "t", "x", "t">>, blob |-> "B4"],
       [key |-> <<"e", ".", "D", "c", "m">>, blob |-> "B5"],
       [key |-> <<"g", ".", "D", "C", "M">>, blob |-> "B6"],
       [key |-> <<"h", ".", "d", "i", "c", "o", "m">>, blob |-> "B7"],
       [key |-> <<"u", "/", "f">>, blob |-> "B8"] >>

source_bucket == "src"
source_prefix == <<>>

\* the blob stored at bucket/key (the key exists)
BlobAt(store, bucket, key) ==
    (CHOOSE o \in store : o.bucket = bucket /\ o.key = key).blob

\* copy_object: the destination holds the source's body, replacing any object
\* already at that key
CopyObject(store, srcBucket, srcKey, dstBucket, dstKey) ==
    {o \in store : ~(o.bucket = dstBucket /\ o.key = dstKey)}
        \cup {[bucket |-> dstBucket, key |-> dstKey,
               blob |-> BlobAt(store, srcBucket, srcKey)]}

(***************************************************************************)
(* The listing order of the object store: list_objects_v2 reports the keys *)
(* of a bucket that start with the prefix in ascending byte order, in      *)
(* pages of at most PageSize objects.                                      *)
(***************************************************************************)
\* the printable ASCII characters (the backquote left out) in code order
CharOrder ==
    <<" ", "!", "\"", "#", "$", "%", "&", "'", "(", ")", "*", "+",
       ",", "-", ".", "/", "0", "1", "2", "3", "4", "5", "6", "7",
       "8", "9", ":", ";", "<", "=", ">", "?", "@", "A", "B", "C",
       "D", "E", "F", "G", "H", "I", "J", "K", "L", "M", "N", "O",
       "P", "Q", "R", "S", "T", "U", "V", "W", "X", "Y", "Z", "[",
       "\\", "]", "^", "_", "a", "b", "c", "d", "e", "f", "g",
       "h", "i", "j", "k", "l", "m", "n", "o", "p", "q", "r", "s",
       "t", "u", "v", "w", "x", "y", "z", "{", "|", "}", "~" >>

CharCode(c) == CHOOSE i \in 1..Len(CharOrder) : CharOrder[i] = c

KeyLess(a, b) ==
    \E i \in 1..(Len(a) + 1) :
        /\ i <= Len(b)
        /\ \A j \in 1..(i - 1) : a[j] = b[j]
        /\ (i = Len(a) + 1 \/ CharCode(a[i]) < CharCode(b[i]))

RECURSIVE SortedKeys(_)
SortedKeys(S) ==
    IF S = {}
    THEN <<>>
    ELSE LET m == CHOOSE k \in S : \A o \in S \ {k} : KeyLess(k, o)
         IN  <<m>> \o SortedKeys(S \ {m})

StartsWith(s, pre) == Len(s) >= Len(pre) /\ SubSeq(s, 1, Len(pre)) = pre

\* the keys a listing of bucket/prefix reports
ListedKeys(store, bucket, prefix) ==
    SortedKeys({o.key : o \in {x \in store : x.bucket = bucket /\ StartsWith(x.key, prefix)}})

\* pages a paginator yields for a listing: one page without 'Contents' when
\* nothing matches
NumPages(keys) ==
    IF Len(keys) = 0 THEN 1 ELSE (Len(keys) + PageSize - 1) \div PageSize

PageContents(keys, n) ==
    SubSeq(keys, (n - 1) * PageSize + 1,
           IF n * PageSize < Len(keys) THEN n * PageSize ELSE Len(keys))

S3Call(op, key, ok) == [op |-> op, key |-> key, ok |-> ok]

(***************************************************************************)
(* S3DICOMOrganizer._list_dicom_files (called first by                     *)
(* organize_by_patient_study_series).                                      *)
(***************************************************************************)
\* the paginator raises while fetching a page: nothing catches it
ListPageFails ==
    /\ opc = "list"
    /\ pageNo < NumPages(listing)
    /\ calls' = Append(calls, S3Call("list_objects_v2", <<>>, FALSE))
    /\ opc' = "raised"
    /\ UNCHANGED <<scenario, s3_before, setupVars, mpc, target_bucket, target_prefix, s3, listing, pageNo,
                   page, dicom_files, fileIdx, structure, slisted, waitVars>>

\* if 'Contents' not in page: continue
ListEmptyPage ==
    /\ opc = "list"
    /\ pageNo < NumPages(listing)
    /\ PageContents(listing, pageNo + 1) = <<>>
    /\ calls' = Append(calls, S3Call("list_objects_v2", <<>>, TRUE))
    /\ pageNo' = pageNo + 1
    /\ UNCHANGED <<scenario, s3_before, setupVars, mpc, opc, target_bucket, target_prefix, s3, listing,
                   page, dicom_files, fileIdx, structure, slisted, waitVars>>

ListFetchPage ==
    /\ opc = "list"
    /\ pageNo < NumPages(listing)
    /\ PageContents(listing, pageNo + 1) # <<>>
    /\ calls' = Append(calls, S3Call("list_objects_v2", <<>>, TRUE))
    /\ pageNo' = pageNo + 1
    /\ page' = PageContents(listing, pageNo + 1)
    /\ opc' = "list_page"
    /\ UNCHANGED <<scenario, s3_before, setupVars, mpc, target_bucket, target_prefix, s3, listing,
                   dicom_files, fileIdx, structure, slisted, waitVars>>

\* key.endswith(...) is true: the key is appended, no range read is made
ListObjectByExtension ==
    /\ opc = "list_page"
    /\ HasDicomExtension(Head(page))
    /\ dicom_files' = Append(dicom_files, Head(page))
    /\ page' = Tail(page)
    /\ opc' = IF Tail(page) = <<>> THEN "list" ELSE "list_page"
    /\ UNCHANGED <<scenario, s3_before, setupVars, mpc, target_bucket, target_prefix, s3, listing, pageNo,
                   fileIdx, calls, structure, slisted, waitVars>>

\* otherwise _is_dicom_file decides, with one ranged GET that may fail
ListObjectByMagic ==
    /\ opc = "list_page"
    /\ ~HasDicomExtension(Head(page))
    /\ \E callFails \in BOOLEAN :
        LET key == Head(page)
            body == BlobBytes(BlobAt(s3, source_bucket, key))
        IN  /\ calls' = Append(calls, S3Call("get_object_range", key,
                                             ~callFails /\ RangeOk(body, RangeFirst)))
            /\ dicom_files' = IF IsListedAsDicom(key, body, callFails)
                              THEN Append(dicom_files, key)
                              ELSE dicom_files
    /\ page' = Tail(page)
    /\ opc' = IF Tail(page) = <<>> THEN "list" ELSE "list_page"
    /\ UNCHANGED <<scenario, s3_before, setupVars, mpc, target_bucket, target_prefix, s3, listing, pageNo,
                   fileIdx, structure, slisted, waitVars>>

\* return dicom_files; organize_by_patient_study_series enters its loop
ListReturn ==
    /\ opc = "list"
    /\ pageNo = NumPages(listing)
    /\ opc' = "organize"
    /\ fileIdx' = 0
    /\ UNCHANGED <<scenario, s3_before, setupVars, mpc, target_bucket, target_prefix, s3, listing, pageNo,
                   page, dicom_files, calls, structure, slisted, waitVars>>

(***************************************************************************)
(* S3DICOMOrganizer.organize_by_patient_study_series: the loop over        *)
(* dicom_files.  The body of one iteration is one try block; each action   *)
(* below is one way through it.                                            *)
(***************************************************************************)
\* mutant: the file that failed is tried again
AfterException_Retry(i) == i

\* mutant: after a failure the following file is skipped
AfterException_SkipNext(i) == i + 2

\* except Exception: print and go on with the next file
AfterException(i) == i + 1

\* the try block ran to its end: the for loop takes the next file
AfterOrganized(i) == i + 1

CurrentFile == dicom_files[fileIdx + 1]

\* _read_dicom_metadata: get_object raises
OrganizeReadFails ==
    /\ opc = "organize"
    /\ fileIdx < Len(dicom_files)
    /\ calls' = Append(calls, S3Call("get_object", CurrentFile, FALSE))
    /\ fileIdx' = AfterException(fileIdx)
    /\ UNCHANGED <<scenario, s3_before, setupVars, mpc, opc, target_bucket, target_prefix, s3, listing, pageNo,
                   page, dicom_files, structure, slisted, waitVars>>

\* _read_dicom_metadata: get_object succeeds, pydicom.dcmread raises
OrganizeParseFails ==
    /\ opc = "organize"
    /\ fileIdx < Len(dicom_files)
    /\ ~BlobDataset(BlobAt(s3, source_bucket, CurrentFile)).parsed
    /\ calls' = Append(calls, S3Call("get_object", CurrentFile, TRUE))
    /\ fileIdx' = AfterException(fileIdx)
    /\ UNCHANGED <<scenario, s3_before, setupVars, mpc, opc, target_bucket, target_prefix, s3, listing, pageNo,
                   page, dicom_files, structure, slisted, waitVars>>

\* metadata read, new_key computed, copy_object raises
OrganizeCopyFails ==
    /\ opc = "organize"
    /\ fileIdx < Len(dicom_files)
    /\ BlobDataset(BlobAt(s3, source_bucket, CurrentFile)).parsed
    /\ LET ds == BlobDataset(BlobAt(s3, source_bucket, CurrentFile)).ds
           new_key == NewKey(target_prefix, ds)
       IN  calls' = calls \o << S3Call("get_object", CurrentFile, TRUE),
                                [op |-> "copy_object", key |-> CurrentFile,
                                 ok |-> FALSE, bucket |-> target_bucket,
                                 new_key |-> new_key] >>
    /\ fileIdx' = AfterException(fileIdx)
    /\ UNCHANGED <<scenario, s3_before, setupVars, mpc, opc, target_bucket, target_prefix, s3, listing, pageNo,
                   page, dicom_files, structure, slisted, waitVars>>

\* metadata read, new_key computed, the object copied to target_bucket/new_key
\* (S3 refuses a copy_object of an object onto itself that changes nothing
\* else, so that request only ever fails)
OrganizeCopied ==
    /\ opc = "organize"
    /\ fileIdx < Len(dicom_files)
    /\ BlobDataset(BlobAt(s3, source_bucket, CurrentFile)).parsed
    /\ LET ds == BlobDataset(BlobAt(s3, source_bucket, CurrentFile)).ds
           new_key == NewKey(target_prefix, ds)
       IN  /\ ~(target_bucket = source_bucket /\ new_key = CurrentFile)
           /\ calls' = calls \o << S3Call("get_object", CurrentFile, TRUE),
                                   [op |-> "copy_object", key |-> CurrentFile,
                                    ok |-> TRUE, bucket |-> target_bucket,
                                    new_key |-> new_key] >>
           /\ s3' = CopyObject(s3, source_bucket, CurrentFile, target_bucket, new_key)
    /\ fileIdx' = AfterOrganized(fileIdx)
    /\ UNCHANGED <<scenario, s3_before, setupVars, mpc, opc, target_bucket, target_prefix, listing, pageNo,
                   page, dicom_files, structure, slisted, waitVars>>

\* the loop is over: organize_by_patient_study_series returns None
OrganizeReturn ==
    /\ opc = "organize"
    /\ fileIdx = Len(dicom_files)
    /\ opc' = "organized"
    /\ UNCHANGED <<scenario, s3_before, setupVars, mpc, target_bucket, target_prefix, s3, listing, pageNo,
                   page, dicom_files, fileIdx, calls, structure, slisted, waitVars>>

(***************************************************************************)
(* S3DICOMOrganizer.get_organized_structure.                               *)
(***************************************************************************)
\* mutant: the series is appended without the membership test
AddSeries_Always(series_list, series) == Append(series_list, series)

\* if series not in structure[patient][study]: ...append(series)
AddSeries(series_list, series) ==
    IF series \in Range(series_list) THEN series_list ELSE Append(series_list, series)

\* the three ifs that enter patient, study and series into the dict
StructureAdd(st, patient, study, series) ==
    LET withPatient == IF patient \in DOMAIN st THEN st ELSE (patient :> <<>>) @@ st
        withStudy == IF study \in DOMAIN withPatient[patient]
                     THEN withPatient
                     ELSE [withPatient EXCEPT ![patient] = (study :> <<>>) @@ @]
    IN  [withStudy EXCEPT ![patient][study] = AddSeries(@, series)]

\* the body of the loop over page['Contents'] for one key
StructureVisit(st, key) ==
    LET parts == Split(key)
    IN  IF Len(parts) >= 4
        THEN StructureAdd(st, FromEnd(parts, 4), FromEnd(parts, 3), FromEnd(parts, 2))
        ELSE st

\* keys of the target listing reported so far, and reports that repeated one
Reported == Cardinality(Range(slisted) \cup Range(page))
Relisted == Len(slisted) + Len(page) - Reported

StructListingOpen == pageNo = 0 \/ Reported < Len(listing)

\* the caller of the organizer calls get_organized_structure
StructStart ==
    /\ opc = "organized"
    /\ opc' = "struct"
    /\ structure' = <<>>
    /\ slisted' = <<>>
    /\ pageNo' = 0
    /\ page' = <<>>
    /\ listing' = ListedKeys(s3, target_bucket, target_prefix)
    /\ UNCHANGED <<scenario, s3_before, setupVars, mpc, target_bucket, target_prefix, s3,
                   dicom_files, fileIdx, calls, waitVars>>

\* the paginator raises while fetching a page: nothing catches it
StructPageFails ==
    /\ opc = "struct"
    /\ StructListingOpen
    /\ calls' = Append(calls, S3Call("list_objects_v2", target_prefix, FALSE))
    /\ opc' = "raised"
    /\ UNCHANGED <<scenario, s3_before, setupVars, mpc, target_bucket, target_prefix, s3, listing, pageNo,
                   page, dicom_files, fileIdx, structure, slisted, waitVars>>

\* if 'Contents' not in page: continue
StructEmptyPage ==
    /\ opc = "struct"
    /\ pageNo = 0
    /\ listing = <<>>
    /\ calls' = Append(calls, S3Call("list_objects_v2", target_prefix, TRUE))
    /\ pageNo' = 1
    /\ UNCHANGED <<scenario, s3_before, setupVars, mpc, opc, target_bucket, target_prefix, s3, listing,
                   page, dicom_files, fileIdx, structure, slisted, waitVars>>

\* the next page: the next keys in listing order; a page may begin by
\* reporting the last key of the page before once more
StructFetchPage ==
    /\ opc = "struct"
    /\ Reported < Len(listing)
    /\ \E again \in BOOLEAN :
        LET repeat == IF again THEN <<slisted[Len(slisted)]>> ELSE <<>>
            upto == Reported + PageSize - Len(repeat)
            fresh == SubSeq(listing, Reported + 1,
                            IF upto < Len(listing) THEN upto
                            ELSE Len(listing))
        IN  /\ again => (slisted # <<>> /\ Relisted < MaxRelist)
            /\ repeat \o fresh # <<>>
            /\ page' = repeat \o fresh
    /\ calls' = Append(calls, S3Call("list_objects_v2", target_prefix, TRUE))
    /\ pageNo' = pageNo + 1
    /\ opc' = "struct_page"
    /\ UNCHANGED <<scenario, s3_before, setupVars, mpc, target_bucket, target_prefix, s3, listing,
                   dicom_files, fileIdx, structure, slisted, waitVars>>

StructObject ==
    /\ opc = "struct_page"
    /\ structure' = StructureVisit(structure, Head(page))
    /\ slisted' = Append(slisted, Head(page))
    /\ page' = Tail(page)
    /\ opc' = IF Tail(page) = <<>> THEN "struct" ELSE "struct_page"
    /\ UNCHANGED <<scenario, s3_before, setupVars, mpc, target_bucket, target_prefix, s3, listing, pageNo,
                   dicom_files, fileIdx, calls, waitVars>>

\* return structure
StructReturn ==
    /\ opc = "struct"
    /\ ~StructListingOpen
    /\ opc' = "done"
    /\ UNCHANGED <<scenario, s3_before, setupVars, mpc, target_bucket, target_prefix, s3, listing, pageNo,
                   page, dicom_files, fileIdx, calls, structure, slisted, waitVars>>

(***************************************************************************)
(* AWSHealthImaging.wait_for_import_completion.  now is time.time() minus  *)
(* start_time; a status request takes 0..MaxDelay, a sleep lasts           *)
(* check_interval plus 0..MaxDelay.                                        *)
(***************************************************************************)
\* jobStatus values; NoProps stands for get_import_job_status returning None
\* (its except branch) or an empty jobProperties
JobStatuses == {"SUBMITTED", "IN_PROGRESS", "COMPLETED", "FAILED", "COMPLETED_WITH_ERRORS"}
NoProps == "NoProps"

\* mutant: the loop is entered once more when the elapsed time equals max_wait
WhileCondition_Inclusive(elapsed, maxWait) == elapsed <= maxWait

\* while time.time() - start_time < max_wait
WhileCondition(elapsed, maxWait) == elapsed < maxWait

\* mutant: COMPLETED_WITH_ERRORS taken for success
StatusOutcome_ErrorsSucceed(status) ==
    CASE status = NoProps -> "False"
      [] status \in {"COMPLETED", "COMPLETED_WITH_ERRORS"} -> "True"
      [] status = "FAILED" -> "False"
      [] OTHER -> "sleep"

\* the if / elif on status, after "if not job_props: return False"
StatusOutcome(status) ==
    CASE status = NoProps -> "False"
      [] status = "COMPLETED" -> "True"
      [] status \in {"FAILED", "COMPLETED_WITH_ERRORS"} -> "False"
      [] OTHER -> "sleep"

\* the loop condition holds: the body is entered
WaitEnterLoop ==
    /\ wpc = "check"
    /\ WhileCondition(now, max_wait)
    /\ wpc' = "poll"
    /\ UNCHANGED <<scenario, s3_before, setupVars, mpc, orgVars, max_wait, check_interval, now, observed,
                   sleeps, wret>>

\* the loop condition fails: "Max wait time exceeded", return False
WaitTimeout ==
    /\ wpc = "check"
    /\ ~WhileCondition(now, max_wait)
    /\ wpc' = "done"
    /\ wret' = "False"
    /\ UNCHANGED <<scenario, s3_before, setupVars, mpc, orgVars, max_wait, check_interval, now, observed,
                   sleeps>>

\* one get_import_job_status call and the branch on what it returned
WaitPoll ==
    /\ wpc = "poll"
    /\ \E status \in JobStatuses \cup {NoProps}, delay \in 0..MaxDelay :
        /\ observed' = Append(observed, status)
        /\ now' = now + delay
        /\ IF StatusOutcome(status) = "sleep"
           THEN wpc' = "sleep" /\ wret' = wret
           ELSE wpc' = "done" /\ wret' = StatusOutcome(status)
    /\ UNCHANGED <<scenario, s3_before, setupVars, mpc, orgVars, max_wait, check_interval, sleeps>>

\* time.sleep(check_interval)
WaitSleep ==
    /\ wpc = "sleep"
    /\ \E delay \in 0..MaxDelay : now' = now + check_interval + delay
    /\ sleeps' = sleeps + 1
    /\ wpc' = "check"
    /\ UNCHANGED <<scenario, s3_before, setupVars, mpc, orgVars, max_wait, check_interval, observed, wret>>

(***************************************************************************)
(* main(): step 1 runs the organizer, then the client is constructed.      *)
(***************************************************************************)
\* AWSHealthImaging.__init__(self, datastore_id, region_name='us-east-1'):
\* the call binds when every parameter without a default is passed
InitRequired == {"datastore_id"}
InitAccepts(keywords) == InitRequired \subseteq keywords

\* healthimaging = AWSHealthImaging(region_name=AWS_REGION)
MainConstructClient ==
    /\ scenario = "main"
    /\ mpc = "step1"
    /\ opc = "done"
    /\ mpc' = IF InitAccepts({"region_name"}) THEN "list_datastores" ELSE "raised"
    /\ UNCHANGED <<scenario, s3_before, setupVars, orgVars, waitVars>>

(***************************************************************************)
(* main(): datastore setup and the start of the import, for a client that  *)
(* __init__ did construct.                                                 *)
(***************************************************************************)
\* Python's None
None == "None"

\* identifiers the imaging service reports for datastores that exist
ExistingDatastores == {"ds1", "ds2"}

\* identifier the service gives a datastore it creates
CreatedDatastore == "ds3"

\* marks that start_dicom_import_job has not been requested
NotCalled == "not_called"

\* datastores = healthimaging.list_datastores() is truthy:
\*   datastore_id = datastores[0]['datastoreId']
\*   healthimaging.datastore_id = datastore_id
MainUseExistingDatastore ==
    /\ mpc = "list_datastores"
    /\ \E first \in ExistingDatastores :
        /\ datastore_id' = first
        /\ self_datastore_id' = first
    /\ mpc' = "import"
    /\ UNCHANGED <<scenario, s3_before, import_datastore, orgVars, waitVars>>

\* create_datastore(datastore_name): returns response['datastoreId'], or
\* None when the request raised; self.datastore_id is not assigned
create_datastore(requestOk) == IF requestOk THEN CreatedDatastore ELSE None

\* datastores is empty:
\*   datastore_id = healthimaging.create_datastore(DATASTORE_NAME)
\*   if not datastore_id: return
MainCreateDatastore ==
    /\ mpc = "list_datastores"
    /\ \E requestOk \in BOOLEAN :
        /\ datastore_id' = create_datastore(requestOk)
        /\ self_datastore_id' = self_datastore_id
        /\ mpc' = IF datastore_id' = None THEN "returned" ELSE "import"
    /\ UNCHANGED <<scenario, s3_before, import_datastore, orgVars, waitVars>>

\* job_id = healthimaging.import_dicom_from_s3(...): the request carries
\* datastoreId=self.datastore_id; a request that raises (it always does for
\* datastoreId=None, which is not a string) gives job_id = None and main
\* returns, otherwise main goes on to wait for the job
MainImport ==
    /\ mpc = "import"
    /\ import_datastore' = self_datastore_id
    /\ \E requestOk \in BOOLEAN :
        /\ requestOk => self_datastore_id # None
        /\ mpc' = IF requestOk THEN "wait" ELSE "returned"
    /\ UNCHANGED <<scenario, s3_before, self_datastore_id, datastore_id, orgVars, waitVars>>

(***************************************************************************)
(* Initial states and next-state relation.                                 *)
(***************************************************************************)
\* target_prefix values tried ('' is the default and what main passes)
TargetPrefixes == { <<>>, <<"o", "r", "g">> }

WaitIdle ==
    /\ wpc = "idle"
    /\ max_wait = 0
    /\ check_interval = 1
    /\ now = 0
    /\ observed = <<>>
    /\ sleeps = 0
    /\ wret = "none"

\* the source bucket holds at most MaxFiles of the candidate objects and the
\* first listing is about to be paginated
OrganizerStart ==
    /\ \E chosen \in SUBSET Range(SourceCandidates) :
        /\ Cardinality(chosen) <= MaxFiles
        /\ s3 = {[bucket |-> source_bucket, key |-> c.key, blob |-> c.blob] : c \in chosen}
    /\ listing = ListedKeys(s3, source_bucket, source_prefix)
    /\ opc = "list"
    /\ pageNo = 0
    /\ page = <<>>
    /\ dicom_files = <<>>
    /\ fileIdx = 0
    /\ calls = <<>>
    /\ structure = <<>>
    /\ slisted = <<>>
    /\ s3_before = s3

\* the client and main's datastore variables before the setup step
SetupIdle ==
    /\ self_datastore_id = None
    /\ datastore_id = None
    /\ import_datastore = NotCalled

\* S3DICOMOrganizer(source_bucket, source_prefix, target_bucket, target_prefix)
\* constructed and organize_by_patient_study_series called;
\* target_bucket=None gives self.target_bucket = source_bucket
InitOrganizer ==
    /\ scenario = "organizer"
    /\ mpc = "none"
    /\ target_bucket \in {source_bucket, "tgt"}
    /\ target_prefix \in TargetPrefixes
    /\ OrganizerStart
    /\ WaitIdle
    /\ SetupIdle

\* main() at step 1: TARGET_BUCKET differs from SOURCE_BUCKET, TARGET_PREFIX = ''
InitMain ==
    /\ scenario = "main"
    /\ mpc = "step1"
    /\ target_bucket = "tgt"
    /\ target_prefix = <<>>
    /\ OrganizerStart
    /\ WaitIdle
    /\ SetupIdle

\* the organizer after step 1 of main() has ended with nothing to organize
OrganizerIdle ==
    /\ target_bucket = "tgt"
    /\ target_prefix = <<>>
    /\ s3 = {}
    /\ s3_before = {}
    /\ listing = <<>>
    /\ opc = "done"
    /\ pageNo = 0
    /\ page = <<>>
    /\ dicom_files = <<>>
    /\ fileIdx = 0
    /\ calls = <<>>
    /\ structure = <<>>
    /\ slisted = <<>>

\* main() at the datastore setup (main.py:69) with a client object as
\* AWSHealthImaging.__init__(datastore_id, region_name) builds it:
\* self.datastore_id is the argument it was given
InitSetup ==
    /\ scenario = "setup"
    /\ mpc = "list_datastores"
    /\ OrganizerIdle
    /\ WaitIdle
    /\ self_datastore_id \in {None} \cup ExistingDatastores
    /\ datastore_id = None
    /\ import_datastore = NotCalled

\* wait_for_import_completion(job_id, check_interval, max_wait) called:
\* start_time = time.time()
InitWait ==
    /\ scenario = "wait"
    /\ mpc = "none"
    /\ target_bucket = source_bucket
    /\ target_prefix = <<>>
    /\ s3 = {}
    /\ listing = <<>>
    /\ opc = "idle"
    /\ pageNo = 0
    /\ page = <<>>
    /\ dicom_files = <<>>
    /\ fileIdx = 0
    /\ calls = <<>>
    /\ structure = <<>>
    /\ slisted = <<>>
    /\ s3_before = {}
    /\ SetupIdle
    /\ wpc = "check"
    /\ max_wait \in -1..MaxWait
    /\ check_interval \in 1..MaxInterval
    /\ now = 0
    /\ observed = <<>>
    /\ sleeps = 0
    /\ wret = "none"

Init == InitOrganizer \/ InitMain \/ InitWait \/ InitSetup

Next ==
    \/ ListPageFails
    \/ ListEmptyPage
    \/ ListFetchPage
    \/ ListObjectByExtension
    \/ ListObjectByMagic
    \/ ListReturn
    \/ OrganizeReadFails
    \/ OrganizeParseFails
    \/ OrganizeCopyFails
    \/ OrganizeCopied
    \/ OrganizeReturn
    \/ StructStart
    \/ StructPageFails
    \/ StructEmptyPage
    \/ StructFetchPage
    \/ StructObject
    \/ StructReturn
    \/ WaitEnterLoop
    \/ WaitTimeout
    \/ WaitPoll
    \/ WaitSleep
    \/ MainConstructClient
    \/ MainUseExistingDatastore
    \/ MainCreateDatastore
    \/ MainImport

Spec == Init /\ [][Next]_vars

\* wait_for_import_completion on its own.  The function is sequential code:
\* whichever step it is at (the loop test, the status request, the sleep) is
\* eventually taken, which is weak fairness of its next-state relation.
WaitNext ==
    \/ WaitEnterLoop
    \/ WaitTimeout
    \/ WaitPoll
    \/ WaitSleep

WaitSpec == InitWait /\ [][WaitNext]_vars /\ WF_vars(WaitNext)

(***************************************************************************)
(* Properties.                                                             *)
(***************************************************************************)
Last(seq) == seq[Len(seq)]

TerminalStatuses == {"COMPLETED", "FAILED", "COMPLETED_WITH_ERRORS"}

\* C1: wait_for_import_completion returns True only if the last status it
\* observed is COMPLETED and no status observed before it was COMPLETED,
\* FAILED or COMPLETED_WITH_ERRORS (nor a failed request); the call has then
\* returned, so nothing is requested after it.
C1_TrueOnlyOnCompleted ==
    wret = "True" =>
        /\ wpc = "done"
        /\ observed # <<>>
        /\ Last(observed) = "COMPLETED"
        /\ \A i \in 1..(Len(observed) - 1) :
               observed[i] \in JobStatuses \ TerminalStatuses

\* C1 witness: True returned after at least one non-terminal status
C1_Witness ==
    /\ wret = "True"
    /\ Len(observed) >= 2
    /\ sleeps >= 1

\* C2: the call returns False as soon as FAILED or COMPLETED_WITH_ERRORS is
\* observed; a status is requested only while the elapsed time is below
\* max_wait, so with max_wait <= 0 none is requested; and a call that
\* returned without having observed a terminal status or a failed request
\* returned False with the elapsed time at or beyond max_wait.
C2_FalseOnFailureOrTimeout ==
    /\ (observed # <<>> /\ Last(observed) \in {"FAILED", "COMPLETED_WITH_ERRORS"})
           => (wpc = "done" /\ wret = "False")
    /\ wpc = "poll" => now < max_wait
    /\ max_wait <= 0 => observed = <<>>
    /\ (wpc = "done" /\ \A i \in 1..Len(observed) :
                            observed[i] \in JobStatuses \ TerminalStatuses)
           => (wret = "False" /\ now >= max_wait)

\* C2 witness: a timeout after some polling, the job still not terminal
C2_Witness ==
    /\ wpc = "done"
    /\ wret = "False"
    /\ Len(observed) >= 2
    /\ \A i \in 1..Len(observed) : observed[i] \in JobStatuses \ TerminalStatuses

\* ---- the organizer's claims speak of these ----
OrganizerRuns == scenario \in {"organizer", "main"}

\* the source listing is still the one in listing
SourceListed == opc \in {"list", "list_page", "organize", "organized"}

CallsOf(op) == {i \in 1..Len(calls) : calls[i].op = op}

SourceBody(key) == BlobBytes(BlobAt(s3, source_bucket, key))
SourceDs(key) == BlobDataset(BlobAt(s3, source_bucket, key)).ds

ClaimExtensions ==
    { <<".", "d", "c", "m">>, <<".", "d", "i", "c", "o", "m">>,
      <<".", "D", "C", "M">>, <<".", "D", "I", "C", "O", "M">> }

KeyEndsIn(key, ext) ==
    /\ Len(key) >= Len(ext)
    /\ \A i \in 1..Len(ext) : key[Len(key) - Len(ext) + i] = ext[i]

\* the bytes at offsets 128..131 (positions 129..132) are 'D' 'I' 'C' 'M'
MarkerAt128(body) ==
    /\ Len(body) >= 132
    /\ body[129] = 68 /\ body[130] = 73 /\ body[131] = 67 /\ body[132] = 77

RangeReadFailed(key) ==
    \E i \in CallsOf("get_object_range") : calls[i].key = key /\ ~calls[i].ok

ShouldBeListed(key) ==
    \/ \E ext \in ClaimExtensions : KeyEndsIn(key, ext)
    \/ MarkerAt128(SourceBody(key)) /\ ~RangeReadFailed(key)

\* objects of the source listing visited so far by _list_dicom_files
Visited ==
    IF opc \in {"list", "list_page"}
    THEN (IF pageNo * PageSize < Len(listing) THEN pageNo * PageSize ELSE Len(listing))
             - Len(page)
    ELSE Len(listing)

\* C3: of the keys listed under the source prefix, _list_dicom_files returns
\* exactly those that end in a known extension or whose bytes 128..131 read
\* as DICM (a failed or short range read counting as no marker), each once
\* and in listing order, across all pages.
C3_ListedIffExtensionOrMarker ==
    (OrganizerRuns /\ SourceListed) =>
        dicom_files = SelectSeq(SubSeq(listing, 1, Visited), ShouldBeListed)

\* C3 witness: a listing of more than one page returned, with a key taken by
\* its marker alone, a key taken by extension and a key left out
C3_Witness ==
    /\ OrganizerRuns
    /\ opc = "organize"
    /\ pageNo >= 2
    /\ \E k \in Range(dicom_files) : \A ext \in ClaimExtensions : ~KeyEndsIn(k, ext)
    /\ \E k \in Range(dicom_files) : \E ext \in ClaimExtensions : KeyEndsIn(k, ext)
    /\ \E k \in Range(listing) : k \notin Range(dicom_files)

ClaimInvalid == {"<", ">", ":", "\"", "|", "?", "*", "\\"}

ClaimS(text) ==
    [i \in 1..Len(text) |-> IF text[i] \in ClaimInvalid THEN "_" ELSE text[i]]

ClaimPlaceholder(field) ==
    CASE field = "PatientID" ->
             <<"U","n","k","n","o","w","n","_","P","a","t","i","e","n","t">>
      [] field = "StudyInstanceUID" ->
             <<"U","n","k","n","o","w","n","_","S","t","u","d","y">>
      [] field = "SeriesInstanceUID" ->
             <<"U","n","k","n","o","w","n","_","S","e","r","i","e","s">>
      [] field = "SOPInstanceUID" ->
             <<"U","n","k","n","o","w","n","_","I","n","s","t","a","n","c","e">>

ClaimSegment(ds, field) ==
    ClaimS(IF field \in DOMAIN ds THEN ds[field] ELSE ClaimPlaceholder(field))

ClaimKey(prefix, ds) ==
    prefix \o <<"/">> \o ClaimSegment(ds, "PatientID")
           \o <<"/">> \o ClaimSegment(ds, "StudyInstanceUID")
           \o <<"/">> \o ClaimSegment(ds, "SeriesInstanceUID")
           \o <<"/">> \o ClaimSegment(ds, "SOPInstanceUID")
           \o <<".", "d", "c", "m">>

StructureTriples ==
    UNION { UNION { { <<p, st, se>> : se \in Range(structure[p][st]) }
                    : st \in DOMAIN structure[p] }
            : p \in DOMAIN structure }

\* the sanitized (PatientID, StudyInstanceUID, SeriesInstanceUID) of the files
\* organize_by_patient_study_series copied
OrganizedTriples ==
    { << ClaimSegment(SourceDs(calls[i].key), "PatientID"),
         ClaimSegment(SourceDs(calls[i].key), "StudyInstanceUID"),
         ClaimSegment(SourceDs(calls[i].key), "SeriesInstanceUID") >>
      : i \in {j \in CallsOf("copy_object") : calls[j].ok} }

\* C5 (as claimed): listing the keys the organizer produced (a target bucket
\* of its own), get_organized_structure returns exactly the patient -> study
\* -> series grouping of the organized files.
C5_StructureIsGrouping ==
    (OrganizerRuns /\ opc = "done" /\ target_bucket # source_bucket)
        => StructureTriples = OrganizedTriples

\* C6: in the dict get_organized_structure builds, no series list holds a
\* series id twice.
C6_NoDuplicateSeries ==
    OrganizerRuns =>
        \A p \in DOMAIN structure : \A st \in DOMAIN structure[p] :
            Cardinality(Range(structure[p][st])) = Len(structure[p][st])

KeyTriple(key) ==
    LET parts == Split(key)
    IN  <<parts[Len(parts) - 3], parts[Len(parts) - 2], parts[Len(parts) - 1]>>

\* C6 witness: the structure returned after two listed entries fell into the
\* same series: two instance files of one series, and one key listed twice
C6_Witness ==
    /\ OrganizerRuns
    /\ opc = "done"
    /\ \E i, j \in 1..Len(slisted) :
           /\ i < j
           /\ slisted[i] # slisted[j]
           /\ Len(Split(slisted[i])) >= 4 /\ Len(Split(slisted[j])) >= 4
           /\ KeyTriple(slisted[i]) = KeyTriple(slisted[j])
    /\ \E i, j \in 1..Len(slisted) :
           /\ i < j
           /\ slisted[i] = slisted[j]
           /\ Len(Split(slisted[i])) >= 4

\* C7 (as claimed): no public operation of the organizer lets the exception
\* of a failed remote call reach its caller.
C7_NoExceptionPropagates ==
    OrganizerRuns => opc # "raised"

CountCalls(op, key) ==
    Cardinality({i \in CallsOf(op) : calls[i].key = key})

\* the successful copy requests made to bucket/key so far
CopiesTo(bucket, key) ==
    {i \in CallsOf("copy_object") :
         calls[i].ok /\ calls[i].bucket = bucket /\ calls[i].new_key = key}

\* C8: nothing is retried and nothing is rolled back.  In one run of
\* organize_by_patient_study_series a file gets at most one range read, one
\* metadata read and one copy request, and a failed listing request is the
\* last request made; every copy that succeeded is still in place, with the
\* body of the latest copy to its key, whatever failed afterwards; and in
\* wait_for_import_completion a failed status request is the last one and
\* the call has returned False.
C8_NoRetryNoRollback ==
    /\ OrganizerRuns =>
          /\ \A k \in Range(dicom_files) :
                 /\ CountCalls("get_object", k) <= 1
                 /\ CountCalls("copy_object", k) <= 1
          /\ SourceListed =>
                 \A k \in Range(listing) : CountCalls("get_object_range", k) <= 1
          /\ \A i \in CallsOf("list_objects_v2") : ~calls[i].ok => i = Len(calls)
          /\ \A i \in CallsOf("copy_object") :
                 calls[i].ok =>
                     \E o \in s3 :
                         /\ o.bucket = calls[i].bucket
                         /\ o.key = calls[i].new_key
                         /\ LET last == CHOOSE j \in CopiesTo(o.bucket, o.key) :
                                            \A m \in CopiesTo(o.bucket, o.key) : m <= j
                            IN  o.blob = BlobAt(s3, source_bucket, calls[last].key)
    /\ \A i \in 1..Len(observed) :
           observed[i] = NoProps =>
               (i = Len(observed) /\ wpc = "done" /\ wret = "False")

\* C8 witness: the organize loop is over, a copy succeeded, and the metadata
\* read of one later file and the copy of another failed
C8_Witness ==
    /\ OrganizerRuns
    /\ opc = "organized"
    /\ \E i, j, k \in 1..Len(calls) :
           /\ i < j /\ i < k
           /\ calls[i].op = "copy_object" /\ calls[i].ok
           /\ calls[j].op = "get_object" /\ ~calls[j].ok
           /\ calls[k].op = "copy_object" /\ ~calls[k].ok

\* main() has ended: it returned, or an exception left it
MainEnded ==
    \/ mpc \in {"raised", "returned", "complete"}
    \/ opc = "raised"

\* C9 (as claimed): when every external call succeeds, main() runs through
\* all its steps and ends at the final WORKFLOW COMPLETE step.
C9_MainReachesComplete ==
    (scenario = "main" /\ MainEnded /\ \A i \in 1..Len(calls) : calls[i].ok)
        => mpc = "complete"

IdFields == {"PatientID", "StudyInstanceUID", "SeriesInstanceUID", "SOPInstanceUID"}

\* C10 (as claimed): what _sanitize returns holds no '/', so the destination
\* key of every copy has exactly four segments after those of target_prefix.
C10_SanitizeRemovesSeparator ==
    OrganizerRuns =>
        \A i \in CallsOf("copy_object") :
            /\ \A f \in IdFields :
                   "/" \notin Range(sanitize(DsGet(SourceDs(calls[i].key), f,
                                                   ClaimPlaceholder(f))))
            /\ Len(Split(calls[i].new_key)) = Len(Split(target_prefix)) + 4

\* the keys of the metadata reads made so far, in the order made
RECURSIVE KeysOf(_, _)
KeysOf(log, op) ==
    IF log = <<>>
    THEN <<>>
    ELSE (IF Head(log).op = op THEN <<Head(log).key>> ELSE <<>>) \o KeysOf(Tail(log), op)

\* the successful copies of listed files
GoodCopies == {i \in CallsOf("copy_object") : calls[i].ok}

\* C11: a failed metadata read or copy of one file touches no other file.
\* The files visited so far are exactly the first fileIdx entries of
\* dicom_files, each once and in list order, and all of them once the loop
\* is over; and every file whose own metadata read and copy succeeded has an
\* object at its destination key in the target bucket, holding its own body
\* when no other copied file has the same destination key (else the body of
\* the file copied there last), whichever other files failed.
C11_FailuresAreIsolated ==
    OrganizerRuns =>
        /\ Len(KeysOf(calls, "get_object")) = fileIdx
        /\ fileIdx <= Len(dicom_files)
        /\ \A i \in 1..fileIdx : KeysOf(calls, "get_object")[i] = dicom_files[i]
        /\ opc \in {"organized", "struct", "struct_page", "done"}
               => fileIdx = Len(dicom_files)
        /\ \A i \in GoodCopies :
               LET dest == ClaimKey(target_prefix, SourceDs(calls[i].key))
                   rivals == {j \in GoodCopies : calls[j].new_key = dest}
               IN  \E o \in s3 :
                       /\ o.bucket = target_bucket
                       /\ o.key = dest
                       /\ \E j \in rivals :
                              /\ \A m \in rivals : m <= j
                              /\ o.blob = BlobAt(s3, source_bucket, calls[j].key)
                       /\ rivals = {i}
                              => o.blob = BlobAt(s3, source_bucket, calls[i].key)

\* C11 witness: three files visited, the first failed at its metadata read,
\* the second was copied, the third failed at its copy
C11_Witness ==
    /\ OrganizerRuns
    /\ opc = "organized"
    /\ Len(dicom_files) = 3
    /\ \E i, j, k \in 1..Len(calls) :
           /\ i < j /\ j < k
           /\ calls[i].op = "get_object" /\ ~calls[i].ok
                  /\ calls[i].key = dicom_files[1]
           /\ calls[j].op = "copy_object" /\ calls[j].ok
                  /\ calls[j].key = dicom_files[2]
           /\ calls[k].op = "copy_object" /\ ~calls[k].ok
                  /\ calls[k].key = dicom_files[3]

\* ceil(a / b) for b > 0, and 0 when a <= 0
CeilDiv(a, b) == IF a <= 0 THEN 0 ELSE (a + b - 1) \div b

\* requests made so far, failed ones included
Requests == Len(observed)

\* C12: wait_for_import_completion always returns.  With every sleep
\* advancing the clock by at least check_interval > 0, at most
\* ceil(max_wait / check_interval) status requests are made (none when
\* max_wait <= 0), one sleep lies between any two consecutive requests, and
\* the call returns whatever the job reports, also a job that never leaves
\* its non-terminal statuses.
C12_WaitTerminates ==
    /\ [](/\ check_interval > 0
          /\ Requests <= CeilDiv(max_wait, check_interval)
          /\ now >= sleeps * check_interval
          /\ wpc \in {"check", "poll"} => sleeps = Requests
          /\ wpc = "sleep" => sleeps = Requests - 1
          /\ wpc = "done" => sleeps \in {Requests - 1, Requests}
          /\ (wpc = "done" /\ Requests = 0) => sleeps = 0)
    /\ <>(wpc = "done")

\* C12 witness: the job never reached a terminal status, every request the
\* bound allows was made (more than one), and the call has returned
C12_Witness ==
    /\ wpc = "done"
    /\ Requests = CeilDiv(max_wait, check_interval)
    /\ Requests >= 2
    /\ sleeps = Requests
    /\ \A i \in 1..Requests : observed[i] \in JobStatuses \ TerminalStatuses

\* start_dicom_import_job has been requested
ImportRequested == import_datastore # NotCalled

C14_SourceObjectsUntouched ==
    OrganizerRuns =>
        /\ \A o \in s3_before :
               (o.bucket = source_bucket /\ StartsWith(o.key, source_prefix))
                   => o \in s3
        /\ \A o \in s3 \ s3_before :
               /\ o.bucket = target_bucket
               /\ \E i \in GoodCopies : calls[i].new_key = o.key

====
